---------------------------- MODULE Spec2Model ----------------------------
(***************************************************************************)
(* SincNet front-end (pyannote/audio/models/blocks/sincnet.py):            *)
(* construction, the frame-count / receptive-field arithmetic, the two     *)
(* memoized queries (lru_cache on num_frames, cached_property on           *)
(* receptive_field) and the shape-level data flow of forward.              *)
(*                                                                         *)
(* Tensors are modelled by their shape (channels, length); the batch axis  *)
(* and the numeric content are left out.  A Python float quotient a / b is *)
(* kept as the exact ratio [num |-> a, den |-> b].                         *)
(***************************************************************************)
EXTENDS Integers, Sequences, FiniteSets, TLC

\* ------------------------------------------------------------------ bounds
NumThreads == 2     \* threads calling into the objects
MaxStride == 2      \* constructor argument stride ranges over 1..MaxStride
MaxSamples == 600   \* num_frames arguments range over 0..MaxSamples (and 16000)
MaxFrames == 4      \* receptive_field_size arguments range over 1..MaxFrames
maxsize == 2        \* capacity of the lru_cache (functools default: 128)

\* the SincNet objects that may be constructed
Inst == {1, 2}
Strides == 1..MaxStride
SampleRates == {8000, 16000, 44100}

\* ------------------------------------------------------- results of calls
Ok(v) == [status |-> "ok", value |-> v]
Raised(e) == [status |-> e]
IsOk(r) == r.status = "ok"

\* a / b on Python numbers, kept exact
TrueDiv(a, b) == [num |-> a, den |-> b]

\* --------------------------------------- pyannote.audio.utils.frame helpers
\* out = floor((in + 2*padding - dilation*(kernel_size-1) - 1) / stride) + 1,
\* failing with InvalidGeometry when the computed length is <= 0
conv1d_num_frames(num_samples, kernel_size, stride, padding, dilation) ==
    LET out == ((num_samples + 2 * padding - dilation * (kernel_size - 1) - 1) \div stride) + 1
    IN  IF out <= 0 THEN Raised("InvalidGeometry") ELSE Ok(out)

\* in = (out - 1) * stride + dilation*(kernel_size-1) + 1 - 2*padding
conv1d_receptive_field_size(num_frames_, kernel_size, stride, padding, dilation) ==
    (num_frames_ - 1) * stride + dilation * (kernel_size - 1) + 1 - 2 * padding

\* ------------------------------------------------------ SincNet.num_frames
\* the kernel list with the filter length mistyped
num_frames_kernel_size_typo == <<151, 3, 5, 3, 5, 3>>

\* the stride list with the last pooling stride left at 1
num_frames_stride_nopool(self_stride) == <<self_stride, 3, 1, 3, 1, 1>>

num_frames_kernel_size == <<251, 3, 5, 3, 5, 3>>
num_frames_stride(self_stride) == <<self_stride, 3, 1, 3, 1, 3>>
num_frames_padding == <<0, 0, 0, 0, 0, 0>>
num_frames_dilation == <<1, 1, 1, 1, 1, 1>>

\* the for loop over zip(kernel_size, stride, padding, dilation), from index j;
\* an exception raised by conv1d_num_frames leaves the loop and the function
RECURSIVE num_frames_loop(_, _, _)
num_frames_loop(self_stride, acc, j) ==
    IF j > Len(num_frames_kernel_size) THEN Ok(acc)
    ELSE LET r == conv1d_num_frames(acc, num_frames_kernel_size[j],
                                    num_frames_stride(self_stride)[j],
                                    num_frames_padding[j], num_frames_dilation[j])
         IN  IF IsOk(r) THEN num_frames_loop(self_stride, r.value, j + 1) ELSE r

\* the loop with a failing stage's exception swallowed: the non-positive
\* length is folded into the later stages
RECURSIVE num_frames_loop_swallow(_, _, _)
num_frames_loop_swallow(self_stride, acc, j) ==
    IF j > Len(num_frames_kernel_size) THEN Ok(acc)
    ELSE num_frames_loop_swallow(self_stride,
            ((acc + 2 * num_frames_padding[j]
                  - num_frames_dilation[j] * (num_frames_kernel_size[j] - 1) - 1)
                \div num_frames_stride(self_stride)[j]) + 1,
            j + 1)

num_frames_swallow(self_stride, num_samples) ==
    num_frames_loop_swallow(self_stride, num_samples, 1)

\* the loop with a failing stage skipped: the length is carried over unchanged
RECURSIVE num_frames_loop_skip(_, _, _)
num_frames_loop_skip(self_stride, acc, j) ==
    IF j > Len(num_frames_kernel_size) THEN Ok(acc)
    ELSE LET r == conv1d_num_frames(acc, num_frames_kernel_size[j],
                                    num_frames_stride(self_stride)[j],
                                    num_frames_padding[j], num_frames_dilation[j])
         IN  num_frames_loop_skip(self_stride, IF IsOk(r) THEN r.value ELSE acc, j + 1)

num_frames_skip(self_stride, num_samples) ==
    num_frames_loop_skip(self_stride, num_samples, 1)

\* the body of num_frames, uncached
num_frames(self_stride, num_samples) ==
    num_frames_loop(self_stride, num_samples, 1)

\* -------------------------------------------- SincNet.receptive_field_size
\* the kernel list with the second convolution's kernel mistyped
rfs_kernel_size_typo == <<251, 3, 5, 3, 3, 3>>

rfs_kernel_size == <<251, 3, 5, 3, 5, 3>>
\* the stride list with the stride argument left out of the filter stage
rfs_stride_fixed(self_stride) == <<1, 3, 1, 3, 1, 3>>

rfs_stride(self_stride) == <<self_stride, 3, 1, 3, 1, 3>>
rfs_padding == <<0, 0, 0, 0, 0, 0>>
rfs_dilation == <<1, 1, 1, 1, 1, 1>>

\* the for loop over reversed(list(zip(...))), from index j down to 1
RECURSIVE rfs_loop(_, _, _)
rfs_loop(self_stride, acc, j) ==
    IF j < 1 THEN acc
    ELSE rfs_loop(self_stride,
                  conv1d_receptive_field_size(acc, rfs_kernel_size[j],
                                              rfs_stride(self_stride)[j],
                                              rfs_padding[j], rfs_dilation[j]),
                  j - 1)

receptive_field_size(self_stride, num_frames_) ==
    rfs_loop(self_stride, num_frames_, Len(rfs_kernel_size))


\* ---------------------------------------------------------- the layer types
\* Encoder(ParamSincFB(n_filters, kernel_size, stride=..)): a 1-channel
\* convolution by n_filters band-pass filters, no padding
ParamSincFB(n_filters, kernel_size, stride) ==
    [kind |-> "Encoder", in_channels |-> 1, out_channels |-> n_filters,
     kernel_size |-> kernel_size, stride |-> stride, padding |-> 0, dilation |-> 1]

Conv1d(in_channels, out_channels, kernel_size, stride) ==
    [kind |-> "Conv1d", in_channels |-> in_channels, out_channels |-> out_channels,
     kernel_size |-> kernel_size, stride |-> stride, padding |-> 0, dilation |-> 1]

MaxPool1d(kernel_size, stride, padding, dilation) ==
    [kind |-> "MaxPool1d", kernel_size |-> kernel_size, stride |-> stride,
     padding |-> padding, dilation |-> dilation]

InstanceNorm1d(num_features) ==
    [kind |-> "InstanceNorm1d", num_features |-> num_features, affine |-> TRUE]

\* -------------------------------------------------------- SincNet.__init__
\* the constructor with the sample-rate check placed after the layers are built
SincNet_init_late_check(sample_rate, stride) ==
    IF sample_rate # 16000
    THEN [state |-> "failed", error |-> "NotImplementedError",
          wav_norm1d |-> InstanceNorm1d(1),
          conv1d |-> <<ParamSincFB(80, 251, stride), Conv1d(80, 60, 5, 1), Conv1d(60, 60, 5, 1)>>,
          pool1d |-> <<MaxPool1d(3, 3, 0, 1), MaxPool1d(3, 3, 0, 1), MaxPool1d(3, 3, 0, 1)>>,
          norm1d |-> <<InstanceNorm1d(80), InstanceNorm1d(60), InstanceNorm1d(60)>>]
    ELSE [state |-> "ready",
          sample_rate |-> sample_rate,
          stride |-> stride,
          wav_norm1d |-> InstanceNorm1d(1),
          conv1d |-> <<ParamSincFB(80, 251, stride), Conv1d(80, 60, 5, 1), Conv1d(60, 60, 5, 1)>>,
          pool1d |-> <<MaxPool1d(3, 3, 0, 1), MaxPool1d(3, 3, 0, 1), MaxPool1d(3, 3, 0, 1)>>,
          norm1d |-> <<InstanceNorm1d(80), InstanceNorm1d(60), InstanceNorm1d(60)>>]

\* the object __init__ leaves behind: nothing but the raised error when the
\* sample rate is not 16000, else the attributes and the three layer lists
SincNet_init(sample_rate, stride) ==
    IF sample_rate # 16000
    THEN [state |-> "failed", error |-> "NotImplementedError"]
    ELSE [state |-> "ready",
          sample_rate |-> sample_rate,
          stride |-> stride,
          wav_norm1d |-> InstanceNorm1d(1),
          conv1d |-> <<ParamSincFB(80, 251, stride), Conv1d(80, 60, 5, 1), Conv1d(60, 60, 5, 1)>>,
          pool1d |-> <<MaxPool1d(3, 3, 0, 1), MaxPool1d(3, 3, 0, 1), MaxPool1d(3, 3, 0, 1)>>,
          norm1d |-> <<InstanceNorm1d(80), InstanceNorm1d(60), InstanceNorm1d(60)>>]

\* ------------------------------------------------ SincNet.receptive_field
SlidingWindow(start, duration, step) ==
    [start |-> start, duration |-> duration, step |-> step]

\* the window with the step taken from one frame's size instead of the
\* difference between two frames' and one frame's
receptive_field_step_is_size(self_stride, self_sample_rate) ==
    SlidingWindow(0,
                  TrueDiv(receptive_field_size(self_stride, 1), self_sample_rate),
                  TrueDiv(receptive_field_size(self_stride, 1), self_sample_rate))

\* the body of the cached property
receptive_field(self_stride, self_sample_rate) ==
    LET duration == TrueDiv(receptive_field_size(self_stride, 1), self_sample_rate)
        step == TrueDiv(receptive_field_size(self_stride, 2)
                          - receptive_field_size(self_stride, 1),
                        self_sample_rate)
    IN  SlidingWindow(0, duration, step)

\* ------------------------------------------------------------------- state
VARIABLES
    obj,        \* obj[i]: the i-th SincNet object (state, attributes, layers)
    rf_cache,   \* rf_cache[i]: the cached_property slot of obj[i] ({} = absent)
    lru,        \* the lru_cache of num_frames: entries, least recent first
    running,    \* running[c]: how many threads are inside the body of call c
    ret,        \* what the step just taken returned to its caller ({} = nothing)
    fwd,        \* the forward pass under way: position, tensor shape, operations
    g_stride,   \* geometry queries: the stride of the queried instance
    g_n,        \*   the sample count handed to num_frames
    g_k,        \*   the frame count handed to receptive_field_size
    g_nf,       \*   what num_frames returned ({} = not called yet)
    g_rfs       \*   what receptive_field_size returned ({} = not called yet)

prog_vars == <<obj, rf_cache, lru, running, ret, fwd>>
geo_vars == <<g_stride, g_n, g_k, g_nf, g_rfs>>
vars == <<obj, rf_cache, lru, running, ret, fwd, g_stride, g_n, g_k, g_nf, g_rfs>>

Samples == (0..MaxSamples) \cup {16000}
FrameCounts == 1..MaxFrames
\* sample counts used by the concurrent callers and by forward: around the
\* one- and two-frame receptive fields of strides 1 and 2
CallSamples == {324, 352, 453}
\* waveform lengths handed to forward: those, and lengths too short for the
\* waveform normalization, for the filter and for the last normalization
ForwardSamples == CallSamples \cup {1, 250, 325}

\* the calls whose body a thread can be inside of: the memoized ones, between
\* the cache lookup that missed and the store of the result
NumFramesCalls == {[op |-> "num_frames", inst |-> i, num_samples |-> n] :
                      i \in Inst, n \in CallSamples}
ReceptiveFieldCalls == {[op |-> "receptive_field", inst |-> i] : i \in Inst}
Calls == NumFramesCalls \cup ReceptiveFieldCalls

RECURSIVE SumOver(_, _)
SumOver(f, S) ==
    IF S = {} THEN 0
    ELSE LET c == CHOOSE x \in S : TRUE IN f[c] + SumOver(f, S \ {c})

\* a thread is free to start a call
IdleThread == SumOver(running, Calls) < NumThreads

\* --------------------------------------------------- the geometry queries
ProgIdle ==
    /\ obj = [i \in Inst |-> [state |-> "uninitialized"]]
    /\ rf_cache = [i \in Inst |-> {}]
    /\ lru = <<>>
    /\ running = [c \in Calls |-> 0]
    /\ ret = {}
    /\ fwd = [pc |-> "idle"]

GeoInit ==
    /\ ProgIdle
    /\ g_stride \in Strides
    /\ g_n \in Samples
    /\ g_k \in FrameCounts
    /\ g_nf = {}
    /\ g_rfs = {}

GeoNumFrames ==
    /\ g_nf = {}
    /\ g_nf' = {num_frames(g_stride, g_n)}
    /\ UNCHANGED <<g_stride, g_n, g_k, g_rfs>>
    /\ UNCHANGED prog_vars

GeoReceptiveFieldSize ==
    /\ g_rfs = {}
    /\ g_rfs' = {receptive_field_size(g_stride, g_k)}
    /\ UNCHANGED <<g_stride, g_n, g_k, g_nf>>
    /\ UNCHANGED prog_vars

GeoNext == GeoNumFrames \/ GeoReceptiveFieldSize

SpecGeometry == GeoInit /\ [][GeoNext]_vars


\* ------------------------------------------- construction and cached queries
GeoIdle ==
    /\ g_stride = 1
    /\ g_n = 0
    /\ g_k = 1
    /\ g_nf = {}
    /\ g_rfs = {}

Init == ProgIdle /\ GeoIdle

Ready(i) == obj[i].state = "ready"

\* SincNet(sample_rate, stride)
Construct(i, sample_rate, stride) ==
    /\ obj[i].state = "uninitialized"
    /\ obj' = [obj EXCEPT ![i] = SincNet_init(sample_rate, stride)]
    /\ ret' = {[op |-> "__init__", inst |-> i, sample_rate |-> sample_rate,
                result |-> IF obj'[i].state = "ready" THEN "ok" ELSE obj'[i].error]}
    /\ UNCHANGED <<rf_cache, lru, running, fwd>>
    /\ UNCHANGED geo_vars

\* the key lru_cache builds from the arguments of the call, self included,
\* here with self left out
make_key_without_self(i, num_samples) == <<0, num_samples>>

make_key(i, num_samples) == <<i, num_samples>>

LruHas(key) == \E x \in DOMAIN lru : lru[x].key = key
LruIndex(key) == CHOOSE x \in DOMAIN lru : lru[x].key = key
SeqRemove(seq, x) == [y \in 1..(Len(seq) - 1) |-> IF y < x THEN seq[y] ELSE seq[y + 1]]

\* self.num_frames(num_samples), the lru_cache wrapper up to the call of the
\* body: a hit returns the cached value and makes the entry the most recent
NumFramesCall(i, num_samples) ==
    /\ IdleThread
    /\ Ready(i)
    /\ IF LruHas(make_key(i, num_samples))
       THEN LET x == LruIndex(make_key(i, num_samples))
            IN  /\ lru' = Append(SeqRemove(lru, x), lru[x])
                /\ ret' = {[op |-> "num_frames", inst |-> i, arg |-> num_samples,
                            result |-> Ok(lru[x].result), how |-> "hit"]}
                /\ UNCHANGED running
       ELSE LET c == [op |-> "num_frames", inst |-> i, num_samples |-> num_samples]
            IN  /\ running' = [running EXCEPT ![c] = @ + 1]
                /\ ret' = {}
                /\ UNCHANGED lru
    /\ UNCHANGED <<obj, rf_cache, fwd>>
    /\ UNCHANGED geo_vars

\* the body runs, then the wrapper stores its result: nothing when the body
\* raised or another thread stored the key meanwhile, else a new most recent
\* entry, in place of the least recent one when the cache is full
NumFramesReturn(c) ==
    /\ running[c] > 0
    /\ LET i == c.inst
           n == c.num_samples
           r == num_frames(obj[i].stride, n)
           key == make_key(i, n)
       IN  IF ~IsOk(r) THEN
              /\ UNCHANGED lru
              /\ ret' = {[op |-> "num_frames", inst |-> i, arg |-> n,
                          result |-> r, how |-> "raised"]}
           ELSE IF LruHas(key) THEN
              /\ UNCHANGED lru
              /\ ret' = {[op |-> "num_frames", inst |-> i, arg |-> n,
                          result |-> r, how |-> "raced"]}
           ELSE IF Len(lru) >= maxsize THEN
              /\ lru' = Append(Tail(lru), [key |-> key, result |-> r.value])
              /\ ret' = {[op |-> "num_frames", inst |-> i, arg |-> n,
                          result |-> r, how |-> "evicted"]}
           ELSE
              /\ lru' = Append(lru, [key |-> key, result |-> r.value])
              /\ ret' = {[op |-> "num_frames", inst |-> i, arg |-> n,
                          result |-> r, how |-> "stored"]}
    /\ running' = [running EXCEPT ![c] = @ - 1]
    /\ UNCHANGED <<obj, rf_cache, fwd>>
    /\ UNCHANGED geo_vars

\* self.receptive_field, cached_property.__get__ up to the call of the body:
\* a value found in the instance's __dict__ is returned
ReceptiveFieldGet(i) ==
    /\ IdleThread
    /\ Ready(i)
    /\ IF rf_cache[i] # {}
       THEN /\ ret' = {[op |-> "receptive_field", inst |-> i,
                        result |-> Ok(w), how |-> "hit"] : w \in rf_cache[i]}
            /\ UNCHANGED running
       ELSE /\ running' = [running EXCEPT ![[op |-> "receptive_field", inst |-> i]] = @ + 1]
            /\ ret' = {}
    /\ UNCHANGED <<obj, rf_cache, lru, fwd>>
    /\ UNCHANGED geo_vars

\* the body runs and its value is written to the instance's __dict__
ReceptiveFieldReturn(c) ==
    /\ running[c] > 0
    /\ LET i == c.inst
           w == receptive_field(obj[i].stride, obj[i].sample_rate)
       IN  /\ rf_cache' = [rf_cache EXCEPT ![i] = {w}]
           /\ ret' = {[op |-> "receptive_field", inst |-> i,
                       result |-> Ok(w), how |-> "stored"]}
    /\ running' = [running EXCEPT ![c] = @ - 1]
    /\ UNCHANGED <<obj, lru, fwd>>
    /\ UNCHANGED geo_vars

Next ==
    \/ \E i \in Inst, sample_rate \in SampleRates, stride \in Strides :
          Construct(i, sample_rate, stride)
    \/ \E i \in Inst, n \in CallSamples : NumFramesCall(i, n)
    \/ \E c \in NumFramesCalls : NumFramesReturn(c)
    \/ \E i \in Inst : ReceptiveFieldGet(i)
    \/ \E c \in ReceptiveFieldCalls : ReceptiveFieldReturn(c)

Spec == Init /\ [][Next]_vars

\* ---------------------------------------------------------- SincNet.forward
Shape(channels, length) == [channels |-> channels, length |-> length]

\* Encoder / nn.Conv1d on a (batch, channels, length) tensor
conv_apply(layer, x) ==
    IF x.channels # layer.in_channels THEN Raised("RuntimeError")
    ELSE IF x.length + 2 * layer.padding < layer.dilation * (layer.kernel_size - 1) + 1
    THEN Raised("RuntimeError")
    ELSE Ok(Shape(layer.out_channels,
                  ((x.length + 2 * layer.padding
                      - layer.dilation * (layer.kernel_size - 1) - 1) \div layer.stride) + 1))

\* nn.MaxPool1d (floor mode): an output that would be empty is an error
pool_apply(layer, x) ==
    LET out == ((x.length + 2 * layer.padding
                   - layer.dilation * (layer.kernel_size - 1) - 1) \div layer.stride) + 1
    IN  IF out <= 0 THEN Raised("RuntimeError") ELSE Ok(Shape(x.channels, out))

\* nn.InstanceNorm1d(affine=True, track_running_stats=False): statistics are
\* taken over the time axis, which a single element does not allow
norm_apply(layer, x) ==
    IF x.channels # layer.num_features THEN Raised("RuntimeError")
    ELSE IF x.length = 1 THEN Raised("ValueError")
    ELSE Ok(x)

\* the step after conv1d, with the rectification applied at no stage
after_conv1d_never_abs(c) == "pool1d"

\* if c == 0: outputs = torch.abs(outputs)
after_conv1d(c) == IF c = 0 THEN "abs" ELSE "pool1d"

\* enumerate(zip(self.conv1d, self.pool1d, self.norm1d)): the stage after c
after_leaky_relu(i, c) ==
    IF c + 1 < Len(obj[i].conv1d) /\ c + 1 < Len(obj[i].pool1d) /\ c + 1 < Len(obj[i].norm1d)
    THEN "conv1d" ELSE "return"

Op(name, c) == [op |-> name, c |-> c]

\* an operation raised: the exception leaves forward
ForwardRaise(e, trace) ==
    /\ fwd' = [pc |-> "idle"]
    /\ ret' = {[op |-> "forward", inst |-> fwd.inst, arg |-> fwd.num_samples,
                result |-> Raised(e), trace |-> trace]}

\* the operation at fwd.pc gave r: go on at pc with its output, or raise
ForwardStep(r, trace, pc, c) ==
    IF IsOk(r)
    THEN /\ fwd' = [fwd EXCEPT !.pc = pc, !.c = c, !.outputs = r.value, !.trace = trace]
         /\ ret' = {}
    ELSE ForwardRaise(r.status, trace)

\* self.forward(waveforms) on a (batch, 1, num_samples) tensor:
\* outputs = self.wav_norm1d(waveforms)
ForwardCall(i, num_samples) ==
    /\ fwd.pc = "idle"
    /\ Ready(i)
    /\ LET r == norm_apply(obj[i].wav_norm1d, Shape(1, num_samples))
           trace == <<Op("wav_norm1d", 0)>>
       IN  IF IsOk(r)
           THEN /\ fwd' = [pc |-> "conv1d", inst |-> i, num_samples |-> num_samples,
                           c |-> 0, outputs |-> r.value, trace |-> trace]
                /\ ret' = {}
           ELSE /\ fwd' = [pc |-> "idle"]
                /\ ret' = {[op |-> "forward", inst |-> i, arg |-> num_samples,
                            result |-> r, trace |-> trace]}
    /\ UNCHANGED <<obj, rf_cache, lru, running>>
    /\ UNCHANGED geo_vars

\* outputs = conv1d(outputs)
ForwardConv ==
    /\ fwd.pc = "conv1d"
    /\ ForwardStep(conv_apply(obj[fwd.inst].conv1d[fwd.c + 1], fwd.outputs),
                   Append(fwd.trace, Op("conv1d", fwd.c)),
                   after_conv1d(fwd.c), fwd.c)
    /\ UNCHANGED <<obj, rf_cache, lru, running>>
    /\ UNCHANGED geo_vars

\* outputs = torch.abs(outputs)
ForwardAbs ==
    /\ fwd.pc = "abs"
    /\ ForwardStep(Ok(fwd.outputs), Append(fwd.trace, Op("abs", fwd.c)), "pool1d", fwd.c)
    /\ UNCHANGED <<obj, rf_cache, lru, running>>
    /\ UNCHANGED geo_vars

\* pool1d(outputs)
ForwardPool ==
    /\ fwd.pc = "pool1d"
    /\ ForwardStep(pool_apply(obj[fwd.inst].pool1d[fwd.c + 1], fwd.outputs),
                   Append(fwd.trace, Op("pool1d", fwd.c)), "norm1d", fwd.c)
    /\ UNCHANGED <<obj, rf_cache, lru, running>>
    /\ UNCHANGED geo_vars

\* norm1d(pool1d(outputs))
ForwardNorm ==
    /\ fwd.pc = "norm1d"
    /\ ForwardStep(norm_apply(obj[fwd.inst].norm1d[fwd.c + 1], fwd.outputs),
                   Append(fwd.trace, Op("norm1d", fwd.c)), "leaky_relu", fwd.c)
    /\ UNCHANGED <<obj, rf_cache, lru, running>>
    /\ UNCHANGED geo_vars

\* outputs = F.leaky_relu(norm1d(pool1d(outputs))), then the next stage
ForwardLeakyRelu ==
    /\ fwd.pc = "leaky_relu"
    /\ LET next == after_leaky_relu(fwd.inst, fwd.c)
       IN  ForwardStep(Ok(fwd.outputs), Append(fwd.trace, Op("leaky_relu", fwd.c)),
                       next, IF next = "conv1d" THEN fwd.c + 1 ELSE fwd.c)
    /\ UNCHANGED <<obj, rf_cache, lru, running>>
    /\ UNCHANGED geo_vars

\* return outputs
ForwardReturn ==
    /\ fwd.pc = "return"
    /\ fwd' = [pc |-> "idle"]
    /\ ret' = {[op |-> "forward", inst |-> fwd.inst, arg |-> fwd.num_samples,
                result |-> Ok(fwd.outputs), trace |-> fwd.trace]}
    /\ UNCHANGED <<obj, rf_cache, lru, running>>
    /\ UNCHANGED geo_vars

ForwardNext ==
    \/ \E i \in Inst, sample_rate \in SampleRates, stride \in Strides :
          Construct(i, sample_rate, stride)
    \/ \E i \in Inst, n \in ForwardSamples : ForwardCall(i, n)
    \/ ForwardConv
    \/ ForwardAbs
    \/ ForwardPool
    \/ ForwardNorm
    \/ ForwardLeakyRelu
    \/ ForwardReturn

SpecForward == Init /\ [][ForwardNext]_vars

\* ------------------------------------------------- properties: arithmetic
\* the six-stage formula of the specification, folded without any guard:
\* StageLength(s, n, j) is the length after stages 1..j on n samples
StageKernels == <<251, 3, 5, 3, 5, 3>>
StageStrides(s) == <<s, 3, 1, 3, 1, 3>>

RECURSIVE StageLength(_, _, _)
StageLength(s, n, j) ==
    IF j = 0 THEN n
    ELSE ((StageLength(s, n, j - 1) + 2 * 0 - 1 * (StageKernels[j] - 1) - 1)
            \div StageStrides(s)[j]) + 1

\* C1: with sample_rate=16000 and stride=1, num_frames(16000) is the six-stage
\* fold of the formula over kernels [251,3,5,3,5,3] and strides [1,3,1,3,1,3],
\* which is 581.
C1_NumFrames16000 ==
    (g_stride = 1 /\ g_n = 16000 /\ g_nf # {}) =>
        /\ g_nf = {Ok(StageLength(1, 16000, 6))}
        /\ g_nf = {Ok(581)}
        /\ LET l1 == ((16000 + 2 * 0 - 1 * (251 - 1) - 1) \div 1) + 1
               l2 == ((l1 + 2 * 0 - 1 * (3 - 1) - 1) \div 3) + 1
               l3 == ((l2 + 2 * 0 - 1 * (5 - 1) - 1) \div 1) + 1
               l4 == ((l3 + 2 * 0 - 1 * (3 - 1) - 1) \div 3) + 1
               l5 == ((l4 + 2 * 0 - 1 * (5 - 1) - 1) \div 1) + 1
               l6 == ((l5 + 2 * 0 - 1 * (3 - 1) - 1) \div 3) + 1
           IN  <<l1, l2, l3, l4, l5, l6>> = <<15750, 5250, 5246, 1748, 1744, 581>>

C1_Witness == g_stride = 1 /\ g_n = 16000 /\ g_nf = {Ok(581)}

\* C2: for every n below receptive_field_size(1) (325 with stride 1),
\* num_frames(n) returns exactly 0 or raises InvalidGeometry; with stride 1
\* this covers every n below 251.
NoFrames(r) == r.status = "InvalidGeometry" \/ (IsOk(r) /\ r.value = 0)

C2_BelowReceptiveField ==
    /\ (g_k = 1 /\ g_stride = 1) => \A size \in g_rfs : size = 325
    /\ (g_k = 1) =>
          \A size \in g_rfs : \A r \in g_nf : g_n < size => NoFrames(r)
    /\ (g_stride = 1 /\ g_n < 251) => \A r \in g_nf : NoFrames(r)

C2_Witness ==
    /\ g_k = 1 /\ g_rfs = {325} /\ g_n = 324
    /\ g_nf = {Raised("InvalidGeometry")}

\* C3: num_frames is non-decreasing: for n <= m, every frame count returned for
\* n is <= the one returned for m, and if m is too short (raises) so is n.
C3_Monotone ==
    \A r \in g_nf :
        \A n \in Samples :
            n <= g_n =>
                LET q == num_frames(g_stride, n)
                IN  IF IsOk(r) THEN (IsOk(q) => q.value <= r.value)
                    ELSE ~IsOk(q)

C3_Witness ==
    /\ g_n > 0
    /\ \E r \in g_nf : /\ IsOk(r)
                       /\ r.value >= 2
                       /\ IsOk(num_frames(g_stride, g_n - 1))
                       /\ num_frames(g_stride, g_n - 1).value < r.value

\* C6: num_frames fails with InvalidGeometry exactly when the length computed at
\* one of the six stages is <= 0; a returned value is the positive length of
\* the last stage, never one derived from a non-positive intermediate length.
C6_InvalidGeometry ==
    \A r \in g_nf :
        /\ (\E j \in 1..6 : StageLength(g_stride, g_n, j) <= 0)
              => r = Raised("InvalidGeometry")
        /\ IsOk(r) => /\ \A j \in 1..6 : StageLength(g_stride, g_n, j) > 0
                      /\ r.value = StageLength(g_stride, g_n, 6)

C6_Witness ==
    /\ g_nf = {Raised("InvalidGeometry")}
    /\ StageLength(g_stride, g_n, 1) > 0
    /\ StageLength(g_stride, g_n, 6) <= 0

\* C10 as stated: num_frames(receptive_field_size(k)) = k and
\* num_frames(receptive_field_size(k) - 1) = k - 1 for every k >= 1, and
\* receptive_field_size(num_frames(n)) <= n whenever num_frames(n) >= 1.
C10_AsStated ==
    \A size \in g_rfs : \A r \in g_nf :
        /\ g_n = size => r = Ok(g_k)
        /\ g_n = size - 1 => r = Ok(g_k - 1)
        /\ (IsOk(r) /\ r.value = g_k) => size <= g_n

\* C10 (amended): num_frames(receptive_field_size(k)) = k for every k >= 1;
\* num_frames(receptive_field_size(k) - 1) = k - 1 for every k >= 2 and raises
\* InvalidGeometry for k = 1; receptive_field_size(num_frames(n)) <= n whenever
\* num_frames(n) returns, with strict inequality for some n.
C10_SmallestInput ==
    \A size \in g_rfs : \A r \in g_nf :
        /\ g_n = size => r = Ok(g_k)
        /\ (g_n = size - 1 /\ g_k >= 2) => r = Ok(g_k - 1)
        /\ (g_n = size - 1 /\ g_k = 1) => r = Raised("InvalidGeometry")
        /\ (IsOk(r) /\ r.value = g_k) => size <= g_n

C10_Witness ==
    \E size \in g_rfs : \E r \in g_nf :
        IsOk(r) /\ r.value = g_k /\ size < g_n


\* ----------------------------------- properties: construction and the caches
\* C4: receptive_field is the window with start 0, duration
\* receptive_field_size(1) / sample_rate and step (receptive_field_size(2) -
\* receptive_field_size(1)) / sample_rate, so step * sample_rate is that
\* difference; with sample_rate 16000 and stride 1 the duration is 325 samples
\* and the step 27 samples.
IsReceptiveField(w, i) ==
    /\ w.start = 0
    /\ w.duration = TrueDiv(receptive_field_size(obj[i].stride, 1), obj[i].sample_rate)
    /\ w.step.den = obj[i].sample_rate
    /\ w.step.num * obj[i].sample_rate =
          (receptive_field_size(obj[i].stride, 2) - receptive_field_size(obj[i].stride, 1))
             * w.step.den
    /\ obj[i].stride = 1 =>
          /\ w.duration = TrueDiv(325, 16000)
          /\ w.step = TrueDiv(27, 16000)

C4_SlidingWindow ==
    /\ \A i \in Inst : \A w \in rf_cache[i] : IsReceptiveField(w, i)
    /\ \A r \in ret : r.op = "receptive_field" => IsReceptiveField(r.result.value, r.inst)

C4_Witness ==
    \E r \in ret :
        /\ r.op = "receptive_field"
        /\ obj[r.inst].stride = 1
        /\ r.result.value = SlidingWindow(0, TrueDiv(325, 16000), TrueDiv(27, 16000))

\* C5: a constructor call with a sample rate other than 16000 raises before any
\* layer exists: the object is never ready, carries no attribute and no layer,
\* and is never used by a call; a call with 16000 leaves a ready object with
\* its three layer lists; a constructed object, ready or failed, never changes.
C5_Outcome ==
    /\ \A i \in Inst :
          /\ obj[i].state = "failed" =>
                obj[i] = [state |-> "failed", error |-> "NotImplementedError"]
          /\ obj[i].state = "ready" =>
                /\ obj[i].sample_rate = 16000
                /\ Len(obj[i].conv1d) = 3 /\ Len(obj[i].pool1d) = 3 /\ Len(obj[i].norm1d) = 3
          /\ obj[i].state # "ready" =>
                /\ rf_cache[i] = {}
                /\ \A c \in Calls : c.inst = i => running[c] = 0
                /\ \A x \in DOMAIN lru : lru[x].key[1] # i
    /\ \A r \in ret :
          r.op = "__init__" =>
             /\ r.sample_rate # 16000 =>
                   obj[r.inst].state = "failed" /\ r.result = "NotImplementedError"
             /\ r.sample_rate = 16000 => obj[r.inst].state = "ready" /\ r.result = "ok"

C5_Construction ==
    /\ []C5_Outcome
    /\ [][\A i \in Inst : obj[i].state # "uninitialized" => obj'[i] = obj[i]]_vars

C5_Witness ==
    \E r \in ret :
        /\ r.op = "__init__" /\ r.sample_rate # 16000
        /\ obj[r.inst].state = "failed"
        /\ \E j \in Inst : obj[j].state = "ready"

\* C8: whatever the interleaving of num_frames and receptive_field calls on the
\* objects, every value returned is the one the uncached body gives for the
\* called object's stride and sample rate, and every cached entry holds the
\* value of its own object and argument (the lru_cache keeps at most maxsize
\* entries, one per object and argument).
C8_CachesValid ==
    /\ \A r \in ret :
          /\ r.op = "num_frames" => r.result = num_frames(obj[r.inst].stride, r.arg)
          /\ r.op = "receptive_field" =>
                r.result = Ok(receptive_field(obj[r.inst].stride, obj[r.inst].sample_rate))
    /\ \A x \in DOMAIN lru :
          /\ lru[x].key[1] \in Inst
          /\ Ready(lru[x].key[1])
          /\ Ok(lru[x].result) = num_frames(obj[lru[x].key[1]].stride, lru[x].key[2])
          /\ \A y \in DOMAIN lru : lru[x].key = lru[y].key => x = y
    /\ Len(lru) <= maxsize
    /\ \A i \in Inst : \A w \in rf_cache[i] :
          w = receptive_field(obj[i].stride, obj[i].sample_rate)

C8_Witness ==
    /\ Len(lru) = maxsize
    /\ \E r \in ret :
          /\ r.op = "num_frames" /\ r.how = "hit"
          /\ \E x \in DOMAIN lru :
                /\ lru[x].key[1] # r.inst
                /\ lru[x].key[2] = r.arg
                /\ Ok(lru[x].result) # r.result
                /\ obj[lru[x].key[1]].stride # obj[r.inst].stride


\* ------------------------------------------------------ properties: forward
\* the operations of a complete forward pass, in order
ForwardOrder ==
    <<Op("wav_norm1d", 0),
      Op("conv1d", 0), Op("abs", 0), Op("pool1d", 0), Op("norm1d", 0), Op("leaky_relu", 0),
      Op("conv1d", 1), Op("pool1d", 1), Op("norm1d", 1), Op("leaky_relu", 1),
      Op("conv1d", 2), Op("pool1d", 2), Op("norm1d", 2), Op("leaky_relu", 2)>>

IsPrefix(p, q) == Len(p) <= Len(q) /\ \A x \in DOMAIN p : p[x] = q[x]

\* C7: forward applies the waveform normalization once, then for c = 0, 1, 2
\* in order conv c, pool c, norm c, leaky_relu; abs is applied exactly once, to
\* stage 0's filter output before its pooling, never at stages 1 and 2; the
\* tensor has 80 channels after stage 0 and 60 after stages 1 and 2.
C7_ForwardOrder ==
    /\ fwd.pc # "idle" =>
          /\ IsPrefix(fwd.trace, ForwardOrder)
          /\ fwd.trace[Len(fwd.trace)].op # "wav_norm1d" =>
                fwd.outputs.channels = (IF fwd.trace[Len(fwd.trace)].c = 0 THEN 80 ELSE 60)
          /\ fwd.trace[Len(fwd.trace)].op = "wav_norm1d" => fwd.outputs.channels = 1
    /\ \A r \in ret :
          r.op = "forward" =>
             /\ IsPrefix(r.trace, ForwardOrder)
             /\ IsOk(r.result) => r.trace = ForwardOrder /\ r.result.value.channels = 60

C7_Witness ==
    \E r \in ret : r.op = "forward" /\ IsOk(r.result) /\ r.trace = ForwardOrder

\* the stage parameters of the layers built by __init__, in the order
\* filter, pool, conv, pool, conv, pool
LayerStack(i) ==
    <<obj[i].conv1d[1], obj[i].pool1d[1], obj[i].conv1d[2], obj[i].pool1d[2],
      obj[i].conv1d[3], obj[i].pool1d[3]>>

\* C9: for every stride, num_frames, receptive_field_size and the layers built
\* by __init__ use the same kernels [251,3,5,3,5,3], strides
\* [stride,3,1,3,1,3], padding 0 and dilation 1, and a forward pass that
\* returns on n samples returns num_frames(n) frames.
C9_SharedGeometry ==
    /\ \A i \in Inst :
          Ready(i) =>
             /\ [j \in 1..6 |-> LayerStack(i)[j].kernel_size] = <<251, 3, 5, 3, 5, 3>>
             /\ [j \in 1..6 |-> LayerStack(i)[j].stride] = <<obj[i].stride, 3, 1, 3, 1, 3>>
             /\ \A j \in 1..6 : LayerStack(i)[j].padding = 0 /\ LayerStack(i)[j].dilation = 1
             /\ num_frames_kernel_size = [j \in 1..6 |-> LayerStack(i)[j].kernel_size]
             /\ rfs_kernel_size = [j \in 1..6 |-> LayerStack(i)[j].kernel_size]
             /\ num_frames_stride(obj[i].stride) = [j \in 1..6 |-> LayerStack(i)[j].stride]
             /\ rfs_stride(obj[i].stride) = [j \in 1..6 |-> LayerStack(i)[j].stride]
             /\ num_frames_padding = [j \in 1..6 |-> LayerStack(i)[j].padding]
             /\ rfs_padding = [j \in 1..6 |-> LayerStack(i)[j].padding]
             /\ num_frames_dilation = [j \in 1..6 |-> LayerStack(i)[j].dilation]
             /\ rfs_dilation = [j \in 1..6 |-> LayerStack(i)[j].dilation]
    /\ \A r \in ret :
          (r.op = "forward" /\ IsOk(r.result)) =>
             num_frames(obj[r.inst].stride, r.arg) = Ok(r.result.value.length)

C9_Witness ==
    \E r \in ret :
        /\ r.op = "forward" /\ IsOk(r.result)
        /\ obj[r.inst].stride > 1
        /\ r.result.value.length >= 2

=============================================================================
